---- MODULE Spec2Model ----
(***************************************************************************)
(* A model of the single-page portfolio application: the post filter       *)
(* (PostFilterUI), the hash router with its bounded navigation history,    *)
(* the view renderer with its DOM cache of rendered post details, and the  *)
(* post content renderer (PostRenderer) with its asynchronous image        *)
(* verification.                                                           *)
(*                                                                         *)
(* Strings the code inspects character by character (titles, descriptions, *)
(* tags, search terms) are sequences of one-character strings.  A URL      *)
(* fragment is the sequence of its '/'-separated segments, so <<"">> is    *)
(* the empty fragment and <<"posts", "a">> is #posts/a.  JavaScript's null *)
(* post id is the empty string (getCurrentRoute maps '' to null).          *)
(***************************************************************************)
EXTENDS Integers, Sequences, FiniteSets, TLC

VARIABLES
    started,            \* init() has run (posts loaded, listeners registered)
    server,             \* the post files the site serves at the moment
    posts,              \* let posts
    currentView,        \* let currentView
    navigationHistory,  \* let navigationHistory
    hash,               \* window.location.hash without '#', as segments
    content,            \* the DOM below #content
    domCache,           \* domCache.postDetails and domCache.postListItems
    ui,                 \* window.postFilterUI
    renderer,           \* window.postRenderer
    calls,              \* activations of renderPostDetail that are not finished
    lastCall,           \* history variable: the latest filterAndSortPosts call
    pushLog,            \* history variable: routes pushed by consecutive navigateTo
    ops,                \* the number of user operations so far, up to MaxOps
    trace,              \* history variable: the first navigation calls, in order,
                        \* where they are recorded
    fetchLog,           \* history variable: the requests of the latest loadPosts
                        \* call, with their outcomes
    modal,              \* #post-gallery-modal, the full-screen viewer
    timeline            \* the project overlays in document.body, with the
                        \* closures of initTimeline that hold them, and
                        \* document.activeElement

vars == <<started, server, posts, currentView, navigationHistory, hash, content,
          domCache, ui, renderer, calls, lastCall, pushLog, ops, trace, fetchLog,
          modal, timeline>>

(***************************************************************************)
(* Bounds of the model.                                                    *)
(***************************************************************************)
MaxPosts == 2
MaxOps == 4
MaxTrace == 5
MaxCalls == 2
MaxPushLog == 11
MaxCheckOps == 1

MaxViewerOps == 2

(***************************************************************************)
(* Strings.                                                                *)
(***************************************************************************)
LowerChar(c) ==
    CASE c = "A" -> "a"
      [] c = "B" -> "b"
      [] c = "X" -> "x"
      [] OTHER -> c

toLowerCase(s) == [i \in 1..Len(s) |-> LowerChar(s[i])]

\* String.prototype.includes: t occurs in s as a substring
includes(s, t) ==
    \E i \in 0..(Len(s) - Len(t)) : SubSeq(s, i + 1, i + Len(t)) = t

\* UTF-16 code units of the characters the model uses
CharCode(c) ==
    CASE c = "A" -> 65
      [] c = "B" -> 66
      [] c = "X" -> 88
      [] c = "a" -> 97
      [] c = "b" -> 98
      [] c = "x" -> 120
      [] c = "y" -> 121
      [] c = "z" -> 122

\* the default comparison of Array.prototype.sort: by code units
RECURSIVE StrLess(_, _)
StrLess(s, t) ==
    IF t = <<>> THEN FALSE
    ELSE IF s = <<>> THEN TRUE
    ELSE IF CharCode(Head(s)) # CharCode(Head(t))
         THEN CharCode(Head(s)) < CharCode(Head(t))
         ELSE StrLess(Tail(s), Tail(t))

\* new Date(str) as a day number; the subtraction of two dates compares these
DateValue(d) ==
    CASE d = "2024-01-01" -> 19723
      [] d = "2024-06-01" -> 19875
      [] d = "2025-02-01" -> 20120

(***************************************************************************)
(* Sequences.                                                              *)
(***************************************************************************)
Range(s) == {s[i] : i \in 1..Len(s)}

\* selectedTags.sort(): the default sort, ascending by code units
RECURSIVE InsertStr(_, _)
InsertStr(sorted, x) ==
    IF sorted = <<>> THEN <<x>>
    ELSE IF StrLess(x, Head(sorted))
         THEN <<x>> \o sorted
         ELSE <<Head(sorted)>> \o InsertStr(Tail(sorted), x)

RECURSIVE SortStrings(_)
SortStrings(s) ==
    IF s = <<>> THEN <<>>
    ELSE InsertStr(SortStrings(SubSeq(s, 1, Len(s) - 1)), s[Len(s)])

(***************************************************************************)
(* Posts.  Every post has id, title, date, gallery and rev (the revision   *)
(* of its content); shortDescription, tags and image are optional fields.  *)
(***************************************************************************)
Has(p, field) == field \in DOMAIN p

NoPost == [id |-> ""]

\* posts.find(p => p.id === postId), NoPost for undefined
RECURSIVE FindPost(_, _)
FindPost(ps, postId) ==
    IF ps = <<>> THEN NoPost
    ELSE IF Head(ps).id = postId THEN Head(ps)
    ELSE FindPost(Tail(ps), postId)

(***************************************************************************)
(* PostFilterUI.                                                           *)
(***************************************************************************)
DefaultFilterState ==
    [searchTerm |-> <<>>, selectedTags |-> <<>>, sortOrder |-> "newest",
     viewMode |-> "grid"]

NewPostFilterUI ==
    [posts |-> <<>>, filteredPosts |-> <<>>, allTags |-> <<>>,
     filterState |-> DefaultFilterState, lastFilterKey |-> <<>>]

\* the tags of the posts in order of first occurrence (the insertion order of
\* the Set)
RECURSIVE TagsInOrder(_, _)
TagsInOrder(ps, seen) ==
    IF ps = <<>> THEN seen
    ELSE IF ~Has(Head(ps), "tags") THEN TagsInOrder(Tail(ps), seen)
    ELSE IF Head(ps).tags = <<>> THEN TagsInOrder(Tail(ps), seen)
    ELSE LET t == Head(Head(ps).tags)
             rest == <<[Head(ps) EXCEPT !.tags = Tail(@)]>> \o Tail(ps)
         IN  TagsInOrder(rest, IF t \in Range(seen) THEN seen ELSE Append(seen, t))

extractAllTags(u) == [u EXCEPT !.allTags = SortStrings(TagsInOrder(u.posts, <<>>))]

\* JSON.stringify({search, tags, sort}); '' (no key yet) is <<>>
FilterKey(fs) == <<fs.searchTerm, fs.selectedTags, fs.sortOrder>>

MatchesSearchTitleOnly(post, term) ==
    includes(toLowerCase(post.title), toLowerCase(term))

\* the search predicate of filterAndSortPosts
MatchesSearch(post, term) ==
    LET searchLower == toLowerCase(term)
        titleMatch == includes(toLowerCase(post.title), searchLower)
        descMatch == /\ Has(post, "shortDescription")
                     /\ includes(toLowerCase(post.shortDescription), searchLower)
        tagMatch == /\ Has(post, "tags")
                    /\ \E i \in 1..Len(post.tags) :
                          includes(toLowerCase(post.tags[i]), searchLower)
    IN  titleMatch \/ descMatch \/ tagMatch

\* the tag predicate of filterAndSortPosts
MatchesTags(post, selectedTags) ==
    /\ Has(post, "tags")
    /\ \E i \in 1..Len(selectedTags) : selectedTags[i] \in Range(post.tags)

\* the comparator's sign: a is placed after b
DateAfter(a, b, sortOrder) ==
    IF sortOrder = "newest"
    THEN DateValue(b.date) - DateValue(a.date) > 0
    ELSE DateValue(a.date) - DateValue(b.date) > 0

RECURSIVE InsertByDate(_, _, _)
InsertByDate(sorted, x, sortOrder) ==
    IF sorted = <<>> THEN <<x>>
    ELSE IF DateAfter(Head(sorted), x, sortOrder)
         THEN <<x>> \o sorted
         ELSE <<Head(sorted)>> \o InsertByDate(Tail(sorted), x, sortOrder)

RECURSIVE SortByDateUnstable(_, _)
SortByDateUnstable(s, sortOrder) ==
    IF s = <<>> THEN <<>>
    ELSE InsertByDate(SortByDateUnstable(Tail(s), sortOrder), Head(s), sortOrder)

\* result.sort((a, b) => ...): Array.prototype.sort is stable
RECURSIVE SortByDate(_, _)
SortByDate(s, sortOrder) ==
    IF s = <<>> THEN <<>>
    ELSE InsertByDate(SortByDate(SubSeq(s, 1, Len(s) - 1), sortOrder),
                      s[Len(s)], sortOrder)

\* lines 52-77: the filtered and sorted copy of the posts
ComputeFiltered(ps, fs) ==
    LET bySearch == IF fs.searchTerm # <<>>
                    THEN SelectSeq(ps, LAMBDA p : MatchesSearch(p, fs.searchTerm))
                    ELSE ps
        byTags == IF Len(fs.selectedTags) > 0
                  THEN SelectSeq(bySearch, LAMBDA p : MatchesTags(p, fs.selectedTags))
                  ELSE bySearch
    IN  SortByDate(byTags, fs.sortOrder)

CacheHitNever(u, filterKey) == FALSE

CacheHitOnKeyAlone(u, filterKey) == filterKey = u.lastFilterKey

\* line 47: the memoised result is returned
CacheHit(u, filterKey) ==
    filterKey = u.lastFilterKey /\ Len(u.filteredPosts) > 0

\* filterAndSortPosts: the instance after the call; the value returned is its
\* filteredPosts.  selectedTags is sorted in place before the key is built.
filterAndSortPosts(u) ==
    LET sortedTags == SortStrings(u.filterState.selectedTags)
        v == [u EXCEPT !.filterState.selectedTags = sortedTags]
        filterKey == FilterKey(v.filterState)
    IN  IF CacheHit(v, filterKey) THEN v
        ELSE [v EXCEPT !.lastFilterKey = filterKey,
                       !.filteredPosts = ComputeFiltered(v.posts, v.filterState)]

\* the history record of a filterAndSortPosts call on instance u
CallRecord(u, via) ==
    LET v == [u EXCEPT !.filterState.selectedTags = SortStrings(@)]
    IN  [via |-> via, tick |-> 1 - lastCall.tick,
         cached |-> CacheHit(v, FilterKey(v.filterState)),
         result |-> filterAndSortPosts(u).filteredPosts]

\* init(posts)
initUI(u, ps) == filterAndSortPosts(extractAllTags([u EXCEPT !.posts = ps]))

\* resetFilters, up to its call of filterAndSortPosts
resetState(u) ==
    [u EXCEPT !.filterState.searchTerm = <<>>,
              !.filterState.selectedTags = <<>>,
              !.filterState.sortOrder = "newest",
              !.lastFilterKey = <<>>]

resetFilters(u) == filterAndSortPosts(resetState(u))

(***************************************************************************)
(* Maps (Map, and the Map-like use of objects): functions on their keys.   *)
(***************************************************************************)
EmptyMap == <<>>

MapHas(m, k) == k \in DOMAIN m

MapSet(m, k, v) == [x \in (DOMAIN m) \cup {k} |-> IF x = k THEN v ELSE m[x]]

MapDelete(m, k) == [x \in (DOMAIN m) \ {k} |-> m[x]]

(***************************************************************************)
(* The state as one record, so that a handler is a function from the state *)
(* before it to the state after it.                                        *)
(***************************************************************************)
Cur ==
    [started |-> started, server |-> server, posts |-> posts,
     currentView |-> currentView, navigationHistory |-> navigationHistory,
     hash |-> hash, content |-> content, domCache |-> domCache, ui |-> ui,
     renderer |-> renderer, calls |-> calls, lastCall |-> lastCall,
     pushLog |-> pushLog, ops |-> ops, trace |-> trace, fetchLog |-> fetchLog,
     modal |-> modal, timeline |-> timeline]

Become(w) ==
    /\ started' = w.started
    /\ server' = w.server
    /\ posts' = w.posts
    /\ currentView' = w.currentView
    /\ navigationHistory' = w.navigationHistory
    /\ hash' = w.hash
    /\ content' = w.content
    /\ domCache' = w.domCache
    /\ ui' = w.ui
    /\ renderer' = w.renderer
    /\ calls' = w.calls
    /\ lastCall' = w.lastCall
    /\ pushLog' = w.pushLog
    /\ ops' = w.ops
    /\ trace' = w.trace
    /\ fetchLog' = w.fetchLog
    /\ modal' = w.modal
    /\ timeline' = w.timeline

(***************************************************************************)
(* The DOM below #content.  call is the activation of renderPostDetail     *)
(* whose #post-container is in the document (0: none); article is what     *)
(* that container holds; live says that the filter bar's elements carry    *)
(* their listeners and handlers that the gallery items carry theirs (a     *)
(* cloneNode copy carries none); servedFor is a history field: the post id  *)
(* under which the content was taken from domCache.postDetails ("": not    *)
(* taken from it).                                                         *)
(***************************************************************************)
BlankContent ==
    [kind |-> "none", call |-> 0, article |-> <<>>, bar |-> <<>>,
     cards |-> <<>>, noResults |-> FALSE, viewClass |-> "", live |-> FALSE,
     handlers |-> FALSE, servedFor |-> ""]

HomeContent == [BlankContent EXCEPT !.kind = "home"]

HomeForNotFound == [BlankContent EXCEPT !.kind = "home"]

NotFoundContent == [BlankContent EXCEPT !.kind = "notfound"]

SkeletonContent(c) == [BlankContent EXCEPT !.kind = "detail", !.call = c]

\* container.cloneNode(true)
CloneNode(ct) ==
    [ct EXCEPT !.call = 0, !.live = FALSE, !.handlers = FALSE, !.servedFor = ""]

(***************************************************************************)
(* PostRenderer.                                                           *)
(***************************************************************************)
PlaceholderImage == "/img/placeholder.png"

CheckTimeout == 5000

NewPostRenderer ==
    [currentPost |-> "", galleryImages |-> <<>>, loadedGalleryImages |-> <<>>,
     currentGalleryImages |-> <<>>, currentImageIndex |-> 0,
     imageLoadStatus |-> EmptyMap]

\* setupGalleryModal: the viewer, hidden; img is what #gallery-img shows; last
\* is a history field: what the latest click on a gallery item or the latest
\* viewer operation did
NewModal == [hidden |-> TRUE, img |-> <<>>, last |-> "none"]

\* post.image || (post.images && post.images.thumbnail), "" for none
ThumbnailSrc(post) == IF Has(post, "image") THEN post.image ELSE ""

\* lines 296-304: the gallery entries made of the settled checks
LoadedImages(imgs, loaded) ==
    [i \in 1..Len(imgs) |->
        IF loaded[i]
        THEN [src |-> imgs[i], isPlaceholder |-> FALSE]
        ELSE [src |-> PlaceholderImage, isPlaceholder |-> TRUE]]

\* lines 306-309
RECURSIVE StoreStatus(_, _, _)
StoreStatus(status, imgs, loaded) ==
    IF imgs = <<>> THEN status
    ELSE StoreStatus(MapSet(status, Head(imgs), Head(loaded)), Tail(imgs), Tail(loaded))

\* lines 45-122 of renderPost: the article built for post from the renderer r
ArticleHTML(post, r) ==
    LET thumbnailSrc == ThumbnailSrc(post)
        failed == /\ MapHas(r.imageLoadStatus, thumbnailSrc)
                  /\ r.imageLoadStatus[thumbnailSrc] = FALSE
        bannerSrc == IF thumbnailSrc # "" /\ ~failed THEN thumbnailSrc
                     ELSE PlaceholderImage
        n == Len(r.loadedGalleryImages)
    IN  [postId |-> post.id, title |-> post.title, rev |-> post.rev,
         banner |-> IF thumbnailSrc # "" THEN <<bannerSrc>> ELSE <<>>,
         gallery |-> SubSeq(r.loadedGalleryImages, 1, IF n > 3 THEN 3 ELSE n),
         hasMore |-> n > 3]

\* checkImageLoads(src): the promise of a check (outcome), with the history of
\* its events: the first of them, and all that have occurred
NewCheck == [outcome |-> "pending", first |-> "none", seen |-> {}]

NewChecks(imgs) == [i \in 1..Len(imgs) |-> NewCheck]

ResolveAgain(outcome, value) == IF value THEN "true" ELSE "false"

\* resolve(value): a promise that is settled keeps its value
Resolve(outcome, value) ==
    IF outcome = "pending" THEN (IF value THEN "true" ELSE "false") ELSE outcome

\* the number of a new activation of renderPostDetail, 0 when MaxCalls are
\* pending
FreshCall(w) ==
    LET free == (1..MaxCalls) \ DOMAIN w.calls
    IN  IF free = {} THEN 0 ELSE CHOOSE c \in free : \A d \in free : c <= d

\* setupGalleryHandlers: the gallery items in the document that show a loaded
\* image get a click listener
HasClickableItem(ct) ==
    /\ ct.article # <<>>
    /\ \E i \in 1..Len(ct.article[1].gallery) : ~ct.article[1].gallery[i].isPlaceholder

setupGalleryHandlers(ct) ==
    IF HasClickableItem(ct) THEN [ct EXCEPT !.handlers = TRUE] ELSE ct

\* renderPost from line 45 on (after preloadGalleryImages), then lines 758-763
\* of renderPostDetail: container.innerHTML = html writes to the
\* #post-container of activation c, which is in the document only while
\* content.call = c; the caching timer is started.
FinishRenderPost(w, c, post) ==
    LET html == ArticleHTML(post, w.renderer)
        written == IF w.content.call = c
                   THEN [w.content EXCEPT !.article = <<html>>]
                   ELSE w.content
    IN  [w EXCEPT !.content = setupGalleryHandlers(written),
                  !.calls = MapSet(w.calls, c,
                                [pc |-> "timer", postId |-> post.id, post |-> post,
                                 imgs |-> <<>>,
                                 checks |-> IF MapHas(w.calls, c)
                                            THEN w.calls[c].checks ELSE <<>>])]

\* line 288: the images whose checks are started: this.galleryImages, read
\* when the line runs
GalleryToCheck(w, post) == w.renderer.galleryImages

\* renderPost up to its first suspension: lines 38-43 and 275-293
StartRenderPost(w, c, post) ==
    LET r1 == [w.renderer EXCEPT !.currentPost = post.id,
                                 !.galleryImages = post.gallery]
        w1 == [w EXCEPT !.renderer = r1]
    IN  IF Len(r1.galleryImages) = 0
        THEN FinishRenderPost(
                 [w1 EXCEPT !.renderer.loadedGalleryImages = <<>>], c, post)
        ELSE IF ThumbnailSrc(post) # ""
        THEN [w1 EXCEPT !.calls = MapSet(w.calls, c,
                            [pc |-> "thumb", postId |-> post.id, post |-> post,
                             imgs |-> <<>>, checks |-> <<NewCheck>>])]
        ELSE [w1 EXCEPT !.calls = MapSet(w.calls, c,
                            [pc |-> "gallery", postId |-> post.id, post |-> post,
                             imgs |-> GalleryToCheck(w1, post),
                             checks |-> NewChecks(GalleryToCheck(w1, post))])]

\* lines 293-315, then the rest of renderPost: the checks of the images imgs
\* of activation c have settled with the outcomes loaded
GalleryChecked(w, c, loaded) ==
    LET imgs == w.calls[c].imgs
        r1 == [w.renderer EXCEPT
                  !.loadedGalleryImages = LoadedImages(imgs, loaded),
                  !.imageLoadStatus = StoreStatus(@, imgs, loaded)]
    IN  FinishRenderPost([w EXCEPT !.renderer = r1], c, w.calls[c].post)

\* lines 284-293: the thumbnail's check has settled with outcome ok; the
\* gallery checks are started (Promise.all of no promise settles at once)
ThumbnailChecked(w, c, ok) ==
    LET post == w.calls[c].post
        r1 == [w.renderer EXCEPT
                  !.imageLoadStatus = MapSet(@, ThumbnailSrc(post), ok)]
        w1 == [w EXCEPT !.renderer = r1]
        imgs == GalleryToCheck(w1, post)
        w2 == [w1 EXCEPT !.calls = MapSet(w.calls, c,
                            [pc |-> "gallery", postId |-> post.id, post |-> post,
                             imgs |-> imgs, checks |-> NewChecks(imgs)])]
    IN  IF imgs = <<>> THEN GalleryChecked(w2, c, <<>>) ELSE w2

\* img.onload, img.onerror (ev "load", "error") or the 5 s timer (ev "timeout")
\* of check i of activation c runs; when this settles the last pending check
\* of the activation, preloadGalleryImages resumes
CheckEvent(w, c, i, ev) ==
    LET before == w.calls[c].checks
        ck == before[i]
        ck1 == [outcome |-> Resolve(ck.outcome, ev = "load"),
                first |-> IF ck.first = "none" THEN ev ELSE ck.first,
                seen |-> ck.seen \cup {ev}]
        w1 == [w EXCEPT !.calls[c].checks[i] = ck1]
        after == w1.calls[c].checks
        resumes == /\ \E k \in 1..Len(before) : before[k].outcome = "pending"
                   /\ \A k \in 1..Len(after) : after[k].outcome # "pending"
    IN  IF ~resumes THEN w1
        ELSE IF w.calls[c].pc = "thumb"
        THEN ThumbnailChecked(w1, c, after[1].outcome = "true")
        ELSE GalleryChecked(w1, c, [k \in 1..Len(after) |-> after[k].outcome = "true"])

\* lines 761-762: what the timer of activation c stores: a clone of #content
\* as it is when the timer fires
CachedClone(w, c) == CloneNode(w.content)

\* the 150 ms timer of renderPostDetail fires
CacheTimerFired(w, c) ==
    [w EXCEPT !.domCache.postDetails =
                  MapSet(@, w.calls[c].postId, CachedClone(w, c)),
              !.calls = MapDelete(w.calls, c)]

\* renderPostDetail(container, postId) up to its first suspension
renderPostDetail(w, postId) ==
    LET post == FindPost(w.posts, postId)
        c == FreshCall(w)
    IN  IF post = NoPost THEN [w EXCEPT !.content = NotFoundContent]
        ELSE IF MapHas(w.domCache.postDetails, postId)
        THEN [w EXCEPT !.content =
                 [CloneNode(w.domCache.postDetails[postId]) EXCEPT
                     !.servedFor = postId]]
        ELSE StartRenderPost([w EXCEPT !.content = SkeletonContent(c)], c, post)

(***************************************************************************)
(* The full-screen viewer.  Indices are those of the code, from 0.         *)
(***************************************************************************)
AllImages(imgs) == imgs

\* line 389: loadedGalleryImages.filter(img => !img.isPlaceholder)
ViewableImages(imgs) == SelectSeq(imgs, LAMBDA g : ~g.isPlaceholder)

\* this.currentGalleryImages || this.loadedGalleryImages: an array, empty or
\* not, is truthy, and currentGalleryImages always is an array
NavigatedImages(r) == r.currentGalleryImages

\* Math.max(0, Math.min(startIndex, last))
Clamp(startIndex, last) ==
    IF startIndex > last THEN (IF last < 0 THEN 0 ELSE last)
    ELSE IF startIndex < 0 THEN 0 ELSE startIndex

updateGalleryDisplay(w) ==
    LET images == NavigatedImages(w.renderer)
    IN  IF Len(images) = 0 THEN w
        ELSE [w EXCEPT !.modal.img = <<images[w.renderer.currentImageIndex + 1]>>]

openGallery(w, startIndex) ==
    LET viewableImages == ViewableImages(w.renderer.loadedGalleryImages)
    IN  IF Len(viewableImages) = 0 THEN [w EXCEPT !.modal.last = "refused"]
        ELSE updateGalleryDisplay(
                 [w EXCEPT !.renderer.currentImageIndex =
                               Clamp(startIndex, Len(viewableImages) - 1),
                           !.renderer.currentGalleryImages = viewableImages,
                           !.modal.hidden = FALSE,
                           !.modal.last = "opened"])

closeGallery(w) == [w EXCEPT !.modal.hidden = TRUE, !.modal.last = "closed"]

nextImageUpToLast(w) ==
    LET images == w.renderer.currentGalleryImages
    IN  IF Len(images) = 0 THEN w
        ELSE [w EXCEPT !.renderer.currentImageIndex =
                           IF @ + 1 < Len(images) THEN @ + 1 ELSE @,
                       !.modal.img = <<images[(IF w.renderer.currentImageIndex + 1 < Len(images)
                                               THEN w.renderer.currentImageIndex + 1
                                               ELSE w.renderer.currentImageIndex) + 1]>>,
                       !.modal.last = "next"]

nextImage(w) ==
    LET images == NavigatedImages(w.renderer)
    IN  IF Len(images) = 0 THEN w
        ELSE updateGalleryDisplay(
                 [w EXCEPT !.renderer.currentImageIndex = (@ + 1) % Len(images),
                           !.modal.last = "next"])

previousImage(w) ==
    LET images == NavigatedImages(w.renderer)
    IN  IF Len(images) = 0 THEN w
        ELSE updateGalleryDisplay(
                 [w EXCEPT !.renderer.currentImageIndex =
                               (@ - 1 + Len(images)) % Len(images),
                           !.modal.last = "previous"])

\* the keys the keydown listener tells apart, and another key
Keys == {"ArrowRight", "ArrowDown", "ArrowLeft", "ArrowUp", "Escape", "Enter"}

keydownWhateverHidden(w, key) ==
    IF key \in {"ArrowRight", "ArrowDown"} THEN nextImage(w)
    ELSE IF key \in {"ArrowLeft", "ArrowUp"} THEN previousImage(w)
    ELSE IF key = "Escape" THEN closeGallery(w)
    ELSE w

\* the keydown listener of setupGalleryKeyboard, lines 478-493
keydown(w, key) ==
    IF w.modal.hidden THEN [w EXCEPT !.modal.last = "keyIgnored"]
    ELSE IF key \in {"ArrowRight", "ArrowDown"} THEN nextImage(w)
    ELSE IF key \in {"ArrowLeft", "ArrowUp"} THEN previousImage(w)
    ELSE IF key = "Escape" THEN closeGallery(w)
    ELSE w

\* a click on the gallery item with data-image-index idx of the displayed
\* article: the listener of lines 346-349, where the item carries one
clickGalleryItem(w, idx) ==
    LET item == w.content.article[1].gallery[idx + 1]
    IN  IF w.content.handlers /\ ~item.isPlaceholder
        THEN openGallery(w, idx)
        ELSE [w EXCEPT !.modal.last = "ignored"]

(***************************************************************************)
(* The project overlays of the timeline (TimelineRenderer.initTimeline).   *)
(* Every call of initTimeline makes a closure with its own activeOverlay,  *)
(* activeProjectElem and previousActiveElement.  A closure is in the state *)
(* while it holds an overlay: overlays maps the overlay (a number) to the  *)
(* closure's variables, with live saying that the closure's project        *)
(* elements are those in the document.  bound lists, in the order of       *)
(* addEventListener, the overlays whose closures have their click and      *)
(* keydown handlers on the document.  focus is document.activeElement;     *)
(* last is a history field: what the latest event on the timeline did.     *)
(***************************************************************************)
Body == [kind |-> "body", n |-> 0]

\* an element that is no longer in the document
Gone == [kind |-> "gone", n |-> 0]

\* the k-th .job-project element of the displayed home view
ProjElem(k) == [kind |-> "proj", n |-> k]

\* the close button of overlay o
CloseBtn(o) == [kind |-> "close", n |-> o]

\* the projects of the timeline data
Projects == {1, 2}

NewTimeline == [overlays |-> EmptyMap, bound |-> <<>>, focus |-> Body, last |-> "none"]

\* the home view as renderHome leaves it: its project elements carry the
\* listeners of initTimeline (a copy replayed from the detail cache has none)
ProjectsLive(w) == w.content.kind = "home" /\ w.content.servedFor = ""

\* #content gets new children: the elements it held are no longer in the
\* document
ContentReplaced(t) ==
    [t EXCEPT !.overlays =
                  [o \in DOMAIN @ |->
                      [@[o] EXCEPT !.live = FALSE,
                                   !.previousActiveElement =
                                       IF @.kind = "proj" THEN Gone ELSE @]],
              !.focus = IF @.kind = "proj" THEN Body ELSE @]

Without(seq, o) == SelectSeq(seq, LAMBDA x : x # o)

\* closeOverlay (lines 297-311) in the closure that holds overlay o: the
\* overlay is removed (a focused close button loses the focus to the body),
\* the handlers are unbound and previousActiveElement.focus() is called, which
\* does nothing on the body and on an element that is not in the document
closeOverlay(t, o) ==
    LET prev == t.overlays[o].previousActiveElement
        removed ==
            [t EXCEPT !.overlays =
                          [x \in (DOMAIN @) \ {o} |->
                              [@[x] EXCEPT !.previousActiveElement =
                                               IF @ = CloseBtn(o) THEN Gone ELSE @]],
                      !.bound = Without(@, o),
                      !.focus = IF @ = CloseBtn(o) THEN Body ELSE @,
                      !.last = "closed"]
    IN  [removed EXCEPT !.focus = IF prev.kind \in {"proj", "close"} THEN prev ELSE @]

\* the handlers on the document run, in the order they were bound, each in
\* its own closure
RECURSIVE CloseAll(_, _)
CloseAll(t, os) ==
    IF os = <<>> THEN t
    ELSE CloseAll(IF Head(os) \in DOMAIN t.overlays THEN closeOverlay(t, Head(os)) ELSE t,
                  Tail(os))

\* escHandler, lines 319-321, of every closure that has it bound
escHandlers(t, key) == IF key = "Escape" THEN CloseAll(t, t.bound) ELSE t

\* outsideClickHandler, lines 313-317, of every closure that has it bound,
\* for a click on an element outside every overlay and every project element
outsideClickHandlers(t) == CloseAll(t, t.bound)

\* the number of a new overlay
FreshOverlay(t) ==
    CHOOSE n \in 1..(Len(t.bound) + Cardinality(DOMAIN t.overlays) + 1) :
        /\ n \notin DOMAIN t.overlays
        /\ \A i \in 1..Len(t.bound) : t.bound[i] # n
        /\ \A m \in 1..(n - 1) :
               m \in DOMAIN t.overlays \/ \E i \in 1..Len(t.bound) : t.bound[i] = m

\* the overlays held by the closure of the displayed home view
LiveOverlays(t) == {o \in DOMAIN t.overlays : t.overlays[o].live}

\* the click listener of project element k, lines 325-422
projectClick(t, k) ==
    LET live == LiveOverlays(t)
        o == CHOOSE x \in live : TRUE
    IN  IF live # {} /\ t.overlays[o].proj = k THEN closeOverlay(t, o)
        ELSE LET t1 == IF live # {} THEN closeOverlay(t, o) ELSE t
                 n == FreshOverlay(t1)
             IN  [t1 EXCEPT !.overlays =
                                MapSet(@, n, [proj |-> k, live |-> TRUE,
                                              previousActiveElement |-> t1.focus]),
                            !.bound = Append(@, n),
                            !.focus = CloseBtn(n),
                            !.last = "opened"]

(***************************************************************************)
(* The list view.                                                          *)
(***************************************************************************)
\* the key `${post.id}-list` of domCache.postListItems
ListKey(postId) == <<postId, "-list">>

\* the card built by createPostListItemHTML when the cache has none
CardHTML(post) == [id |-> post.id, title |-> post.title, date |-> post.date]

\* createPostListItemHTML for each post of ps in turn: the cards and the cache
RECURSIVE CreateCards(_, _)
CreateCards(ps, items) ==
    IF ps = <<>> THEN [cards |-> <<>>, items |-> items]
    ELSE LET key == ListKey(Head(ps).id)
             html == IF MapHas(items, key) THEN items[key] ELSE CardHTML(Head(ps))
             rest == CreateCards(Tail(ps), MapSet(items, key, html))
         IN  [cards |-> <<html>> \o rest.cards, items |-> rest.items]

\* displayPosts(postsToDisplay, viewMode)
displayPosts(w, postsToDisplay, viewMode) ==
    IF w.content.kind # "list" THEN w
    ELSE IF Len(postsToDisplay) = 0
    THEN [w EXCEPT !.content.viewClass = viewMode,
                   !.content.noResults = TRUE,
                   !.content.cards = <<>>]
    ELSE LET made == CreateCards(postsToDisplay, w.domCache.postListItems)
         IN  [w EXCEPT !.content.viewClass = viewMode,
                       !.content.noResults = FALSE,
                       !.content.cards = made.cards,
                       !.domCache.postListItems = made.items]

\* buildUI: the filter bar as rendered from the instance u
buildUI(u) ==
    [search |-> u.filterState.searchTerm,
     tags |-> u.allTags,
     checked |-> {t \in Range(u.allTags) : t \in Range(u.filterState.selectedTags)},
     sort |-> u.filterState.sortOrder,
     hasClear |-> u.filterState.searchTerm # <<>>
                  \/ Len(u.filterState.selectedTags) > 0,
     count |-> <<Len(u.filteredPosts), Len(u.posts)>>]

\* renderPostsList
renderPostsList(w) ==
    LET u0 == extractAllTags([w.ui EXCEPT !.posts = w.posts])
        u1 == initUI(w.ui, w.posts)
        w1 == [w EXCEPT !.ui = u1,
                        !.lastCall = CallRecord(u0, "init"),
                        !.content = [BlankContent EXCEPT !.kind = "list",
                                                         !.bar = <<buildUI(u1)>>,
                                                         !.live = TRUE]]
    IN  displayPosts(w1, u1.filteredPosts, u1.filterState.viewMode)

\* renderHome
renderHome(w) == [w EXCEPT !.content = HomeContent]

(***************************************************************************)
(* The router.                                                             *)
(***************************************************************************)
HistoryLimit == 10

RouteOfRecognizedViewOnly(h) ==
    [view |-> IF h[1] \in {"home", "posts"} THEN h[1] ELSE "home",
     postId |-> IF Len(h) >= 2 /\ h[2] # "" THEN h[2] ELSE ""]

\* getCurrentRoute, of the fragment h
getCurrentRoute(h) ==
    [view |-> IF h[1] # "" THEN h[1] ELSE "home",
     postId |-> IF Len(h) >= 2 /\ h[2] # "" THEN h[2] ELSE ""]

FragmentViewOnly(view, postId) == <<view>>

\* view + (postId ? '/' + postId : '')
FragmentOf(view, postId) == IF postId # "" THEN <<view, postId>> ELSE <<view>>

renderContentPushing(w0) ==
    LET route == getCurrentRoute(w0.hash)
        w == [w0 EXCEPT !.timeline = ContentReplaced(@),
                        !.navigationHistory = Append(@, route)]
    IN  CASE route.view = "home" -> renderHome(w)
          [] route.view = "posts" /\ route.postId # "" ->
                 renderPostDetail(w, route.postId)
          [] route.view = "posts" /\ route.postId = "" -> renderPostsList(w)
          [] OTHER -> renderHome(w)

\* renderContent up to its first suspension
renderContent(w0) ==
    LET route == getCurrentRoute(w0.hash)
        w == [w0 EXCEPT !.timeline = ContentReplaced(@)]
    IN  CASE route.view = "home" -> renderHome(w)
          [] route.view = "posts" /\ route.postId # "" ->
                 renderPostDetail(w, route.postId)
          [] route.view = "posts" /\ route.postId = "" -> renderPostsList(w)
          [] OTHER -> renderHome(w)

LastN(s, n) == IF Len(s) > n THEN SubSeq(s, Len(s) - n + 1, Len(s)) ELSE s

PushDropNewest(history, route) ==
    IF Len(history) >= HistoryLimit THEN history ELSE Append(history, route)

\* lines 467-475: push, and shift when more than 10 entries are held
PushHistory(history, route) ==
    LET pushed == Append(history, route)
    IN  IF Len(pushed) > HistoryLimit THEN Tail(pushed) ELSE pushed

\* navigateTo(view, postId)
navigateTo(w, view, postId) ==
    LET currentRoute == getCurrentRoute(w.hash)
        w1 == [w EXCEPT
                 !.navigationHistory = PushHistory(@, currentRoute),
                 !.pushLog = LastN(Append(@, currentRoute), MaxPushLog),
                 !.currentView = view,
                 !.hash = FragmentOf(view, postId)]
    IN  renderContent(w1)

PopFirst(history) == Tail(history)

\* navigationHistory.pop(): the history without its last entry
PopHistory(history) == SubSeq(history, 1, Len(history) - 1)

\* goBack()
goBack(w) ==
    IF Len(w.navigationHistory) > 0
    THEN LET previousState == w.navigationHistory[Len(w.navigationHistory)]
             w1 == [w EXCEPT
                      !.navigationHistory = PopHistory(@),
                      !.pushLog = <<>>,
                      !.currentView = previousState.view,
                      !.hash = FragmentOf(previousState.view, previousState.postId)]
         IN  renderContent(w1)
    ELSE navigateTo([w EXCEPT !.pushLog = <<>>], "home", "")

(***************************************************************************)
(* Loading and the caches.                                                 *)
(***************************************************************************)
\* the resources that loadPosts fetches, and a request with its outcome (the
\* fetch was answered and the answer parsed as JSON)
IndexUrl == <<"posts/index.json">>

LegacyUrl == <<"posts.json">>

PostUrl(id) == <<"posts/", id, ".json">>

Fetched(url, ok) == [url |-> url, ok |-> ok]

\* an indexed load that gives up on the first failed post and falls back
loadPostsAllOrNothing(w, indexOk, failed, fallbackOk) ==
    IF indexOk /\ \A i \in 1..Len(w.server) : w.server[i].id \notin failed
    THEN [w EXCEPT !.posts = SortByDate(w.server, "newest"),
                   !.fetchLog = <<Fetched(IndexUrl, TRUE)>> \o
                                [i \in 1..Len(w.server) |->
                                    Fetched(PostUrl(w.server[i].id), TRUE)]]
    ELSE [w EXCEPT !.posts = IF fallbackOk THEN w.server ELSE <<>>,
                   !.fetchLog = <<Fetched(IndexUrl, indexOk),
                                  Fetched(LegacyUrl, fallbackOk)>>]

\* loadPosts, its fetches having settled: indexOk says that posts/index.json
\* was fetched and parsed, failed holds the ids whose post file was not, and
\* fallbackOk says that the legacy posts.json was fetched and parsed
loadPosts(w, indexOk, failed, fallbackOk) ==
    IF indexOk
    THEN [w EXCEPT
            !.posts = SortByDate(SelectSeq(w.server, LAMBDA p : p.id \notin failed),
                                 "newest"),
            !.fetchLog = <<Fetched(IndexUrl, TRUE)>> \o
                         [i \in 1..Len(w.server) |->
                             Fetched(PostUrl(w.server[i].id),
                                     w.server[i].id \notin failed)]]
    ELSE IF fallbackOk
    THEN [w EXCEPT !.posts = w.server,
                   !.fetchLog = <<Fetched(IndexUrl, FALSE), Fetched(LegacyUrl, TRUE)>>]
    ELSE [w EXCEPT
            !.fetchLog = <<Fetched(IndexUrl, FALSE), Fetched(LegacyUrl, FALSE)>>]

\* clearAllCache
clearAllCache(w) ==
    [w EXCEPT !.domCache.postDetails = EmptyMap,
              !.domCache.postListItems = EmptyMap]

\* the key postId, as clearPostCache hands it to domCache.postListItems
IdKey(postId) == <<postId>>

\* clearPostCache(postId): both maps are asked to delete the key postId
clearPostCache(w, postId) ==
    [w EXCEPT !.domCache.postDetails = MapDelete(@, postId),
              !.domCache.postListItems = MapDelete(@, IdKey(postId))]

\* init(): the posts are loaded and the route of the initial fragment is
\* rendered
init(w, indexOk, failed, fallbackOk) ==
    renderContent([loadPosts(w, indexOk, failed, fallbackOk) EXCEPT !.started = TRUE])

(***************************************************************************)
(* The handlers of the filter bar (setupListeners).                        *)
(***************************************************************************)
applyFiltersWithoutDisplay(w, via) ==
    [w EXCEPT !.ui = filterAndSortPosts(w.ui), !.lastCall = CallRecord(w.ui, via)]

\* applyFilters(onFilterChange), via naming the handler
applyFilters(w, via) ==
    LET u1 == filterAndSortPosts(w.ui)
        w1 == [w EXCEPT !.ui = u1, !.lastCall = CallRecord(w.ui, via)]
    IN  displayPosts(w1, u1.filteredPosts, u1.filterState.viewMode)

\* the input listener of #filter-search
onSearchInput(w, value) ==
    applyFilters([w EXCEPT !.ui.filterState.searchTerm = value,
                           !.content.bar[1].search = value], "apply")

\* the change listener of a tag checkbox, the user having toggled it
onTagChange(w, tag) ==
    LET nowChecked == tag \notin w.content.bar[1].checked
        sel == w.ui.filterState.selectedTags
        sel1 == IF nowChecked
                THEN (IF tag \in Range(sel) THEN sel ELSE Append(sel, tag))
                ELSE SelectSeq(sel, LAMBDA t : t # tag)
        w1 == [w EXCEPT !.ui.filterState.selectedTags = sel1,
                        !.content.bar[1].checked =
                            IF nowChecked THEN @ \cup {tag} ELSE @ \ {tag}]
    IN  applyFilters(w1, "apply")

\* the change listener of #filter-sort
onSortChange(w, value) ==
    applyFilters([w EXCEPT !.ui.filterState.sortOrder = value,
                           !.content.bar[1].sort = value], "apply")

\* the click listeners of the grid and list buttons
onViewClick(w, mode) ==
    LET w1 == [w EXCEPT !.ui.filterState.viewMode = mode]
    IN  displayPosts(w1, w1.ui.filteredPosts, mode)

\* the click listener of #filter-clear
onClearClick(w) ==
    LET u1 == resetFilters(w.ui)
        w1 == [w EXCEPT !.ui = u1, !.lastCall = CallRecord(resetState(w.ui), "reset")]
    IN  displayPosts(w1, u1.filteredPosts, u1.filterState.viewMode)

(***************************************************************************)
(* The data of the checked instances.                                      *)
(***************************************************************************)
FA == [id |-> "a", title |-> <<"A", "b">>, date |-> "2024-01-01", rev |-> 1,
       gallery |-> <<>>, tags |-> << <<"y">> >>]
FB == [id |-> "b", title |-> <<"y">>, date |-> "2024-06-01", rev |-> 1,
       gallery |-> <<>>, shortDescription |-> <<"a", "X">>]
FC == [id |-> "c", title |-> <<"x", "b">>, date |-> "2024-01-01", rev |-> 1,
       gallery |-> <<>>, tags |-> << <<"X", "y">> >>]
FD == [id |-> "d", title |-> <<"b">>, date |-> "2024-06-01", rev |-> 1,
       gallery |-> <<>>, tags |-> << <<"y">>, <<"X", "y">> >>]

FilterPosts == {FA, FB, FC, FD}

SearchTerms == {<<>>, <<"X">>, <<"z", "z">>}

\* the sequences of at most n posts of S with distinct ids
RECURSIVE SeqsUpTo(_, _)
SeqsUpTo(S, n) ==
    IF n = 0 THEN {<<>>}
    ELSE LET shorter == SeqsUpTo(S, n - 1)
         IN  shorter \cup
             {Append(q, p) : q \in {x \in shorter : Len(x) = n - 1},
                             p \in S} 

DistinctIds(ps) == \A i, j \in 1..Len(ps) : ps[i].id = ps[j].id => i = j

FilterServers == {ps \in SeqsUpTo(FilterPosts, MaxPosts) : DistinctIds(ps)}

\* a post rendered without any image check, one with a thumbnail and a
\* gallery, one with a gallery only, and a later revision of the second
PA == [id |-> "a", title |-> <<"A">>, date |-> "2024-01-01", rev |-> 1,
       gallery |-> <<>>]
PB == [id |-> "b", title |-> <<"B">>, date |-> "2024-06-01", rev |-> 1,
       gallery |-> <<"b1.png">>, image |-> "b.png"]
PC == [id |-> "c", title |-> <<"x">>, date |-> "2025-02-01", rev |-> 1,
       gallery |-> <<"c1.png", "c2.png">>]
PA2 == [PA EXCEPT !.rev = 2, !.title = <<"A", "b">>]

\* a post with a thumbnail and no gallery
PD == [id |-> "d", title |-> <<"D">>, date |-> "2024-01-01", rev |-> 1,
       gallery |-> <<>>, image |-> "d.png"]

PE == [id |-> "e", title |-> <<"E">>, date |-> "2024-01-01", rev |-> 1,
       gallery |-> <<"e1.png", "e2.png", "e3.png">>]

(***************************************************************************)
(* The actions: one per handler, timer or settled promise.                 *)
(***************************************************************************)
\* the value of trace when the calls are not recorded, or no longer
Many == << <<"many">> >>

\* a user operation is counted, up to MaxOps; it ends the recorded run of
\* navigation calls

Count(w) == [w EXCEPT !.ops = IF @ < MaxOps THEN @ + 1 ELSE @, !.trace = Many]

\* a navigation call is counted and recorded, up to MaxTrace calls
CountNav(w, op) ==
    [w EXCEPT !.ops = IF @ < MaxOps THEN @ + 1 ELSE @,
              !.trace = IF @ = Many \/ Len(@) >= MaxTrace THEN Many
                        ELSE Append(@, op)]

\* the bound on pending activations: the route of fragment h can be rendered
CanRender(w, h) ==
    LET route == getCurrentRoute(h)
    IN  (/\ route.view = "posts"
         /\ route.postId # ""
         /\ FindPost(w.posts, route.postId) # NoPost
         /\ ~MapHas(w.domCache.postDetails, route.postId))
        => FreshCall(w) # 0

AppInit(indexOk, failed, fallbackOk) ==
    /\ ~started
    /\ Become([init(Cur, indexOk, failed, fallbackOk) EXCEPT
                   !.trace = IF @ = Many THEN Many ELSE << <<"init">> \o hash >>])

NavigateTo(view, postId) ==
    /\ started
    /\ CanRender(Cur, FragmentOf(view, postId))
    /\ Become(CountNav(navigateTo(Cur, view, postId), <<"navigateTo", view, postId>>))

GoBack ==
    /\ started
    /\ CanRender(Cur, IF Len(navigationHistory) > 0
                      THEN LET e == navigationHistory[Len(navigationHistory)]
                           IN  FragmentOf(e.view, e.postId)
                      ELSE <<"home">>)
    /\ Become(CountNav(goBack(Cur), <<"goBack">>))

\* a hashchange or popstate event: the fragment is h (set by the user, by the
\* browser's back and forward buttons, or by an earlier assignment to
\* location.hash) and the listener renderContent runs
HashChange(h) ==
    /\ started
    /\ CanRender(Cur, h)
    /\ Become(Count(renderContent([Cur EXCEPT !.hash = h])))

ThumbnailSettles(c, ok) ==
    /\ c \in DOMAIN calls
    /\ calls[c].pc = "thumb"
    /\ Become(ThumbnailChecked(Cur, c, ok))

GallerySettles(c, loaded) ==
    /\ c \in DOMAIN calls
    /\ calls[c].pc = "gallery"
    /\ Len(loaded) = Len(calls[c].imgs)
    /\ Become(GalleryChecked(Cur, c, loaded))

\* the load or error event of an image under check
ImageEvent(c, i, ev) ==
    /\ c \in DOMAIN calls
    /\ i \in 1..Len(calls[c].checks)
    /\ calls[c].checks[i].seen \cap {"load", "error"} = {}
    /\ Become(CheckEvent(Cur, c, i, ev))

\* the timer of a check fires, CheckTimeout ms after the check was started
ImageTimeout(c, i) ==
    /\ c \in DOMAIN calls
    /\ i \in 1..Len(calls[c].checks)
    /\ "timeout" \notin calls[c].checks[i].seen
    /\ \E w \in {CheckEvent(Cur, c, i, "timeout")} : Become(w)

\* a click on a gallery item of the displayed article (the viewer, when
\* open, covers the page)
ClickGalleryItem(idx) ==
    /\ started
    /\ modal.hidden
    /\ content.kind = "detail"
    /\ content.article # <<>>
    /\ idx + 1 \in 1..Len(content.article[1].gallery)
    /\ Become(clickGalleryItem(Cur, idx))

\* the viewer's next button
NextImage ==
    /\ ~modal.hidden
    /\ Become(nextImage(Cur))

\* the viewer's previous button
PreviousImage ==
    /\ ~modal.hidden
    /\ Become(previousImage(Cur))

\* a click on the viewer's close button or on its overlay
CloseGallery ==
    /\ ~modal.hidden
    /\ Become(closeGallery(Cur))

\* a key is pressed, the viewer open or not: the keydown listeners on the
\* document run, that of the viewer and those of the project overlays
KeyDown(key) ==
    /\ started
    /\ \E w \in {[keydown(Cur, key) EXCEPT !.timeline = escHandlers(@, key)]} :
           Become(w)

\* a click on project element k of the home view (or Enter or Space on it),
\* which has the focus by then
ProjectClick(k) ==
    /\ started
    /\ modal.hidden
    /\ ProjectsLive(Cur)
    /\ Become([Cur EXCEPT !.timeline =
                              projectClick([@ EXCEPT !.focus = ProjElem(k)], k)])

\* a click on the close control of overlay o, lines 370-373
OverlayCloseClick(o) ==
    /\ started
    /\ modal.hidden
    /\ o \in DOMAIN timeline.overlays
    /\ Become([Cur EXCEPT !.timeline =
                              closeOverlay([@ EXCEPT !.focus = CloseBtn(o)], o)])

\* a click on the page, outside every overlay and every project element, on
\* an element whose click reaches the document; the body gets the focus
OutsideClick ==
    /\ started
    /\ modal.hidden
    /\ Become([Cur EXCEPT !.timeline =
                              outsideClickHandlers([@ EXCEPT !.focus = Body])])

\* a click on an item of the accomplishments timeline of the home view: its
\* listener (line 257) stops the propagation, no handler on the document runs
TimelineItemClick ==
    /\ started
    /\ modal.hidden
    /\ ProjectsLive(Cur)
    /\ Become([Cur EXCEPT !.timeline = [@ EXCEPT !.focus = Body, !.last = "item"]])

CacheTimerFires(c) ==
    /\ c \in DOMAIN calls
    /\ calls[c].pc = "timer"
    /\ Become(CacheTimerFired(Cur, c))

\* window.cacheManager.clear()
ClearAllCache ==
    /\ started
    /\ domCache.postDetails # EmptyMap \/ domCache.postListItems # EmptyMap
    /\ Become(Count(clearAllCache(Cur)))

\* window.cacheManager.clearPost(postId)
ClearPostCache(postId) ==
    /\ started
    /\ Become(Count(clearPostCache(Cur, postId)))

\* the site is republished with the post files data
Publish(data) ==
    /\ started
    /\ server # data
    /\ server' = data
    /\ UNCHANGED <<started, posts, currentView, navigationHistory, hash, content,
                   domCache, ui, renderer, calls, lastCall, pushLog, ops, trace,
                   fetchLog, modal, timeline>>

\* loadPosts() is run again
LoadPosts(indexOk, failed, fallbackOk) ==
    /\ started
    /\ Become(Count(loadPosts(Cur, indexOk, failed, fallbackOk)))

BarLive == started /\ content.kind = "list" /\ content.live

SearchInput(value) ==
    /\ BarLive
    /\ value # content.bar[1].search
    /\ Become(Count(onSearchInput(Cur, value)))

TagChange(tag) ==
    /\ BarLive
    /\ tag \in Range(content.bar[1].tags)
    /\ Become(Count(onTagChange(Cur, tag)))

SortChange(value) ==
    /\ BarLive
    /\ value # content.bar[1].sort
    /\ Become(Count(onSortChange(Cur, value)))

ViewClick(mode) ==
    /\ BarLive
    /\ Become(Count(onViewClick(Cur, mode)))

ClearClick ==
    /\ BarLive
    /\ content.bar[1].hasClear
    /\ Become(Count(onClearClick(Cur)))

(***************************************************************************)
(* Specifications.                                                         *)
(***************************************************************************)
InitWith(servers, fragments, recorded) ==
    /\ started = FALSE
    /\ server \in servers
    /\ posts = <<>>
    /\ currentView = "home"
    /\ navigationHistory = <<>>
    /\ hash \in fragments
    /\ content = BlankContent
    /\ domCache = [postDetails |-> EmptyMap, postListItems |-> EmptyMap]
    /\ ui = NewPostFilterUI
    /\ renderer = NewPostRenderer
    /\ calls = EmptyMap
    /\ lastCall = [via |-> "none", tick |-> 0, cached |-> FALSE, result |-> <<>>]
    /\ pushLog = <<>>
    /\ ops = 0
    /\ trace = recorded
    /\ fetchLog = <<>>
    /\ modal = NewModal
    /\ timeline = NewTimeline

\* the filter engine in the list view: every sequence of posts, loaded in
\* either way, and every filter state the handlers produce
InitFilter == InitWith(FilterServers, {<<"posts">>}, Many)

NextFilter ==
    \/ \E indexOk \in BOOLEAN : AppInit(indexOk, {}, TRUE)
    \/ \E value \in SearchTerms : SearchInput(value)
    \/ \E tag \in {<<"y">>, <<"X", "y">>} : TagChange(tag)
    \/ \E value \in {"newest", "oldest"} : SortChange(value)
    \/ ClearClick
    \/ HashChange(<<"posts">>)

SpecFilter == InitFilter /\ [][NextFilter]_vars

\* the router alone: navigateTo and goBack in any order and number
InitNav == InitWith({<<PA>>}, {<<"">>}, Many)

NextNav ==
    \/ AppInit(TRUE, {}, TRUE)
    \/ \E view \in {"home", "posts"} : NavigateTo(view, "")
    \/ GoBack

SpecNav == InitNav /\ [][NextNav]_vars

\* the router with the views it renders: a bounded number of navigations,
\* fragment changes and caching timers, from several initial fragments
RouteFragments == {<<"">>, <<"foo">>, <<"posts", "a">>}

InitRoute ==
    InitWith({<<PA>>, <<>>}, {<<"">>, <<"home">>, <<"foo">>, <<"posts", "a">>},
             <<>>)

NextRoute ==
    \/ AppInit(TRUE, {}, TRUE)
    \/ ops < MaxOps /\ \E view \in {"home", "posts"} : NavigateTo(view, "")
    \/ ops < MaxOps /\ NavigateTo("posts", "a")
    \/ ops < MaxOps /\ GoBack
    \/ ops < MaxOps /\ \E h \in RouteFragments : HashChange(h)
    \/ \E c \in 1..MaxCalls : CacheTimerFires(c)

SpecRoute == InitRoute /\ [][NextRoute]_vars

\* the detail view: navigations interleaved with the image checks and the
\* caching timers of renderPostDetail, and the cache being dropped
InitRender == InitWith({<<PB, PC>>}, {<<"">>}, Many)

NextRender ==
    \/ AppInit(TRUE, {}, TRUE)
    \/ ops < MaxOps /\ NavigateTo("home", "")
    \/ ops < MaxOps /\ \E id \in {"b", "c"} : NavigateTo("posts", id)
    \/ ops < MaxOps /\ GoBack
    \/ ops < MaxOps /\ HashChange(hash)
    \/ \E c \in 1..MaxCalls, ok \in BOOLEAN : ThumbnailSettles(c, ok)
    \/ \E c \in 1..MaxCalls, loaded \in SeqsUpTo(BOOLEAN, 2) : GallerySettles(c, loaded)
    \/ \E c \in 1..MaxCalls : CacheTimerFires(c)
    \/ ops < MaxOps /\ ClearAllCache

SpecRender == InitRender /\ [][NextRender]_vars

\* the site is republished and loadPosts is run again, between visits to the
\* post
InitReload == InitWith({<<PA>>, <<PA2>>}, {<<"">>, <<"posts", "a">>}, Many)

NextReload ==
    \/ AppInit(TRUE, {}, TRUE)
    \/ ops < MaxOps /\ NavigateTo("home", "")
    \/ ops < MaxOps /\ NavigateTo("posts", "a")
    \/ ops < MaxOps /\ GoBack
    \/ \E c \in 1..MaxCalls : CacheTimerFires(c)
    \/ \E data \in {<<PA>>, <<PA2>>} : Publish(data)
    \/ ops < MaxOps /\ \E indexOk \in BOOLEAN : LoadPosts(indexOk, {}, TRUE)

SpecReload == InitReload /\ [][NextReload]_vars

\* the list view across reloads: tags are selected, the site is republished
\* with other posts, loadPosts is run again and the list is rendered again
RetagServers == {<<FA, FB>>, <<FB>>, <<FC>>}

InitRetag == InitWith(RetagServers, {<<"posts">>}, Many)

NextRetag ==
    \/ AppInit(TRUE, {}, TRUE)
    \/ ops < MaxOps /\ \E tag \in {<<"y">>, <<"X", "y">>} : TagChange(tag)
    \/ ops < MaxOps /\ ClearClick
    \/ ops < MaxOps /\ \E view \in {"home", "posts"} : NavigateTo(view, "")
    \/ \E data \in RetagServers : Publish(data)
    \/ ops < MaxOps /\ LoadPosts(TRUE, {}, TRUE)

SpecRetag == InitRetag /\ [][NextRetag]_vars

\* loading: every outcome of the fetches of loadPosts, in init and in later
\* calls, with the views rendered in between
IdsOf(ps) == {ps[i].id : i \in 1..Len(ps)}

LoadServers == {<<>>, <<FA>>, <<FA, FB>>, <<FB, FC>>, <<FD, FC>>}

InitLoad == InitWith(LoadServers, {<<"">>, <<"posts">>}, Many)

NextLoad ==
    \/ \E indexOk \in BOOLEAN, failed \in SUBSET IdsOf(server), fallbackOk \in BOOLEAN :
           AppInit(indexOk, failed, fallbackOk)
    \/ /\ ops < MaxOps
       /\ \E indexOk \in BOOLEAN, failed \in SUBSET IdsOf(server), fallbackOk \in BOOLEAN :
              LoadPosts(indexOk, failed, fallbackOk)
    \/ ops < MaxOps /\ \E view \in {"home", "posts"} : NavigateTo(view, "")

SpecLoad == InitLoad /\ [][NextLoad]_vars

\* the banner: posts with a thumbnail, with and without a gallery, rendered
\* with every outcome of the image checks
InitBanner == InitWith({<<PB>>, <<PD>>, <<PB, PD>>}, {<<"">>, <<"posts", "d">>}, Many)

NextBanner ==
    \/ AppInit(TRUE, {}, TRUE)
    \/ ops < MaxOps /\ NavigateTo("home", "")
    \/ ops < MaxOps /\ \E id \in {"b", "d"} : NavigateTo("posts", id)
    \/ \E c \in 1..MaxCalls, ok \in BOOLEAN : ThumbnailSettles(c, ok)
    \/ \E c \in 1..MaxCalls, loaded \in SeqsUpTo(BOOLEAN, 1) : GallerySettles(c, loaded)
    \/ \E c \in 1..MaxCalls : CacheTimerFires(c)

SpecBanner == InitBanner /\ [][NextBanner]_vars

\* the image checks, event by event: the load or error event and the timer of
\* every check, in any order
InitCheck == InitWith({<<PB>>, <<PC>>}, {<<"posts", "c">>, <<"posts", "b">>}, Many)

NextCheck ==
    \/ AppInit(TRUE, {}, TRUE)
    \/ ops < MaxCheckOps /\ NavigateTo("home", "")
    \/ ops < MaxCheckOps /\ \E id \in {"b", "c"} : NavigateTo("posts", id)
    \/ \E c \in 1..MaxCalls, i \in 1..2, ev \in {"load", "error"} : ImageEvent(c, i, ev)
    \/ \E c \in 1..MaxCalls, i \in 1..2 : ImageTimeout(c, i)
    \/ \E c \in 1..MaxCalls : CacheTimerFires(c)

SpecCheck == InitCheck /\ [][NextCheck]_vars

\* setTimeout: a timer that is set fires
SpecCheckFair ==
    SpecCheck /\ WF_vars(\E c \in 1..MaxCalls, i \in 1..2 : ImageTimeout(c, i))

\* the viewer: details rendered and replayed, their gallery items clicked, and
\* the viewer's buttons and keys; with the viewer open the page's links are
\* covered, the browser's back and forward buttons are not
InitViewer == InitWith({<<PB, PE>>}, {<<"posts", "e">>}, Many)

NextViewer ==
    \/ AppInit(TRUE, {}, TRUE)
    \/ ops < MaxViewerOps /\ modal.hidden /\ NavigateTo("home", "")
    \/ ops < MaxViewerOps /\ modal.hidden /\ \E id \in {"b", "e"} : NavigateTo("posts", id)
    \/ ops < MaxViewerOps /\ ~modal.hidden /\ HashChange(<<"home">>)
    \/ \E c \in 1..MaxCalls, ok \in BOOLEAN : ThumbnailSettles(c, ok)
    \/ \E c \in 1..MaxCalls, loaded \in SeqsUpTo(BOOLEAN, 3) : GallerySettles(c, loaded)
    \/ \E c \in 1..MaxCalls : CacheTimerFires(c)
    \/ \E idx \in 0..2 : ClickGalleryItem(idx)
    \/ NextImage
    \/ PreviousImage
    \/ CloseGallery

SpecViewer == InitViewer /\ [][NextViewer]_vars

\* the viewer of one post, with the keyboard: keys pressed while the viewer is
\* hidden and while it is open
InitKeys == InitWith({<<PE>>}, {<<"posts", "e">>}, Many)

NextKeys ==
    \/ AppInit(TRUE, {}, TRUE)
    \/ ops < MaxViewerOps /\ modal.hidden /\ NavigateTo("home", "")
    \/ ops < MaxViewerOps /\ modal.hidden /\ NavigateTo("posts", "e")
    \/ \E c \in 1..MaxCalls, loaded \in SeqsUpTo(BOOLEAN, 3) : GallerySettles(c, loaded)
    \/ \E c \in 1..MaxCalls : CacheTimerFires(c)
    \/ \E idx \in 0..2 : ClickGalleryItem(idx)
    \/ NextImage
    \/ PreviousImage
    \/ CloseGallery
    \/ \E key \in Keys : KeyDown(key)

SpecKeys == InitKeys /\ [][NextKeys]_vars

\* the project overlays: projects clicked and overlays closed, the home view
\* left and rendered again by changes of the fragment
InitTimeline == InitWith({<<PA>>}, {<<"">>}, Many)

NextTimeline ==
    \/ AppInit(TRUE, {}, TRUE)
    \/ ops < MaxOps /\ \E h \in {<<"home">>, <<"posts">>} : HashChange(h)
    \/ \E k \in Projects : ProjectClick(k)
    \/ \E o \in 1..MaxOps : OverlayCloseClick(o)
    \/ OutsideClick
    \/ TimelineItemClick
    \/ KeyDown("Escape")

SpecTimeline == InitTimeline /\ [][NextTimeline]_vars

\* the two caches of domCache: the list and the detail pages are rendered and
\* cached, and the cache of one post is dropped
CachedIds == {"a", "b"}

InitCache == InitWith({<<PA, FB>>}, {<<"posts">>, <<"posts", "a">>}, Many)

NextCache ==
    \/ AppInit(TRUE, {}, TRUE)
    \/ ops < MaxOps /\ \E view \in {"home", "posts"} : NavigateTo(view, "")
    \/ ops < MaxOps /\ \E id \in CachedIds : NavigateTo("posts", id)
    \/ \E c \in 1..MaxCalls : CacheTimerFires(c)
    \/ ops < MaxOps /\ \E id \in CachedIds : ClearPostCache(id)

SpecCache == InitCache /\ [][NextCache]_vars

(***************************************************************************)
(* The claims about the filter engine.                                     *)
(***************************************************************************)
\* t occurs in s as a substring when the case of letters is ignored
OccursIgnoringCase(t, s) ==
    \E k \in 0..(Len(s) - Len(t)) :
        \A i \in 1..Len(t) : LowerChar(s[k + i]) = LowerChar(t[i])

PassesSearch(p, term) ==
    \/ term = <<>>
    \/ OccursIgnoringCase(term, p.title)
    \/ Has(p, "shortDescription") /\ OccursIgnoringCase(term, p.shortDescription)
    \/ Has(p, "tags") /\ \E t \in Range(p.tags) : OccursIgnoringCase(term, t)

PassesTags(p, selected) ==
    \/ selected = {}
    \/ Has(p, "tags") /\ Range(p.tags) \cap selected # {}

Called == lastCall.via # "none"

PositionIn(ps, p) == CHOOSE i \in 1..Len(ps) : ps[i] = p

\* C1: the sequence filterAndSortPosts returns holds only posts of the input
\* sequence, each at most once, and holds a post exactly when the post passes
\* the search predicate and the tag predicate of the current filter state.
C1_FilterMembership ==
    Called =>
        LET r == lastCall.result
            fs == ui.filterState
        IN  /\ r = ui.filteredPosts
            /\ \A i \in 1..Len(r) : r[i] \in Range(ui.posts)
            /\ \A i, j \in 1..Len(r) : r[i] = r[j] => i = j
            /\ \A p \in Range(ui.posts) :
                  p \in Range(r) <=> /\ PassesSearch(p, fs.searchTerm)
                                     /\ PassesTags(p, Range(fs.selectedTags))

\* a search term and a selected tag together keep some posts and drop others
C1_Witness ==
    /\ Called
    /\ ui.filterState.searchTerm # <<>>
    /\ ui.filterState.selectedTags # <<>>
    /\ Len(lastCall.result) > 0
    /\ Len(lastCall.result) < Len(ui.posts)

\* C2: the result is ordered by date, descending for 'newest' and ascending
\* for 'oldest', posts of equal date keep their input order, and the posts
\* a (2024-01-01), b (2024-06-01) with the default filter state give [b, a].
C2_SortedStable ==
    Called =>
        LET r == lastCall.result
            newest == ui.filterState.sortOrder = "newest"
        IN  /\ \A i, j \in 1..Len(r) :
                  i < j =>
                    /\ newest => DateValue(r[i].date) >= DateValue(r[j].date)
                    /\ ~newest => DateValue(r[i].date) <= DateValue(r[j].date)
                    /\ r[i].date = r[j].date =>
                           PositionIn(ui.posts, r[i]) < PositionIn(ui.posts, r[j])
            /\ (/\ ui.posts = <<FA, FB>>
                /\ ui.filterState.searchTerm = <<>>
                /\ ui.filterState.selectedTags = <<>>
                /\ newest) => r = <<FB, FA>>

\* the scenario's posts, given oldest first, have been sorted newest first
C2_Witness ==
    /\ Called
    /\ ui.posts = <<FA, FB>>
    /\ ui.filterState.sortOrder = "newest"
    /\ lastCall.result = <<FB, FA>>

\* two posts of the same date are in the result in 'oldest' order
C2_WitnessEqualDates ==
    /\ Called
    /\ ui.filterState.sortOrder = "oldest"
    /\ \E i, j \in 1..Len(lastCall.result) :
          i < j /\ lastCall.result[i].date = lastCall.result[j].date

SearchTagsSort(fs) == <<fs.searchTerm, fs.selectedTags, fs.sortOrder>>

\* C3: a call of filterAndSortPosts that follows another with no change of
\* the search term, the selected tags and the sort order in between (and no
\* reset, which invalidates the key) returns the same sequence, and it returns
\* the stored one without recomputing when the first result was not empty.
C3_RepeatedCall ==
    [][(/\ Called
        /\ lastCall'.tick # lastCall.tick
        /\ lastCall'.via # "reset"
        /\ SearchTagsSort(ui'.filterState) = SearchTagsSort(ui.filterState))
       => (/\ lastCall'.result = lastCall.result
           /\ Len(lastCall.result) > 0 => lastCall'.cached)]_vars

\* a repeated call has been served from the stored result
C3_Witness ==
    /\ lastCall.cached
    /\ Len(lastCall.result) > 0
    /\ ui.filteredPosts = lastCall.result


(***************************************************************************)
(* The claims about the router.                                            *)
(***************************************************************************)
\* C4: after any sequence of navigateTo and goBack calls the history holds at
\* most 10 entries, and after a run of consecutive navigateTo calls its most
\* recent entries are the routes those calls pushed, in order: all of the
\* history once the run is 10 calls long or longer.
C4_HistoryBounded ==
    /\ Len(navigationHistory) <= HistoryLimit
    /\ Len(pushLog) <= Len(navigationHistory) \/ Len(pushLog) > HistoryLimit
    /\ LastN(navigationHistory, Len(pushLog)) = LastN(pushLog, HistoryLimit)

\* more than 10 consecutive pushes, of different routes
C4_Witness ==
    /\ Len(pushLog) > HistoryLimit
    /\ Len(navigationHistory) = HistoryLimit
    /\ pushLog[1] # pushLog[2]
    /\ navigationHistory[1] # navigationHistory[HistoryLimit]

\* what renderContent puts in #content for a route, the posts being ps and
\* the detail cache being cache
ShowsRoute(route, ct, ps, cache) ==
    IF route.view = "posts" /\ route.postId = "" THEN ct.kind = "list"
    ELSE IF route.view = "posts"
    THEN IF FindPost(ps, route.postId) = NoPost THEN ct.kind = "notfound"
         ELSE IF MapHas(cache, route.postId)
         THEN ct = [cache[route.postId] EXCEPT !.servedFor = route.postId]
         ELSE ct.kind = "detail" /\ ct.call # 0
    ELSE ct.kind = "home"

\* C5: goBack on a non-empty history removes exactly the most recently pushed
\* entry, sets the fragment to that entry's view and post id and renders that
\* route; on an empty history it routes to home.
C5_GoBackStep ==
    GoBack =>
        IF Len(navigationHistory) > 0
        THEN LET entry == navigationHistory[Len(navigationHistory)]
             IN  /\ navigationHistory' =
                        SubSeq(navigationHistory, 1, Len(navigationHistory) - 1)
                 /\ hash' = (IF entry.postId = "" THEN <<entry.view>>
                             ELSE <<entry.view, entry.postId>>)
                 /\ getCurrentRoute(hash') = entry
                 /\ ShowsRoute(entry, content', posts, domCache.postDetails)
        ELSE /\ hash' = <<"home">>
             /\ content'.kind = "home"

C5_GoBack == [][C5_GoBackStep]_vars

\* goBack has popped the newer of two different entries and shown its detail
\* view, and goBack has run on an empty history
C5_Witness ==
    /\ Len(trace) >= 4
    /\ trace[Len(trace)] = <<"goBack">>
    /\ trace[Len(trace) - 1] # <<"goBack">>
    /\ Len(navigationHistory) = 1
    /\ getCurrentRoute(hash) # navigationHistory[1]
    /\ content.kind = "detail"

C5_WitnessEmpty ==
    /\ Len(trace) = 2
    /\ trace[2] = <<"goBack">>
    /\ content.kind = "home"

\* C6: starting at home with an empty history, navigating to the posts list,
\* then to a post, then going back returns to the posts list, and going back
\* again returns to home.
AtHome(first) == first \in {<<"init", "">>, <<"init", "home">>}

ListThenPostThenBack ==
    << <<"navigateTo", "posts", "">>, <<"navigateTo", "posts", "a">>, <<"goBack">> >>

C6_BackTwice ==
    /\ (/\ Len(trace) = 4
        /\ AtHome(trace[1])
        /\ SubSeq(trace, 2, 4) = ListThenPostThenBack)
       => /\ getCurrentRoute(hash) = [view |-> "posts", postId |-> ""]
          /\ content.kind = "list"
    /\ (/\ Len(trace) = 5
        /\ AtHome(trace[1])
        /\ SubSeq(trace, 2, 4) = ListThenPostThenBack
        /\ trace[5] = <<"goBack">>)
       => /\ getCurrentRoute(hash) = [view |-> "home", postId |-> ""]
          /\ content.kind = "home"
          /\ navigationHistory = <<>>

C6_Witness ==
    /\ Len(trace) = 5
    /\ AtHome(trace[1])
    /\ SubSeq(trace, 2, 4) = ListThenPostThenBack
    /\ trace[5] = <<"goBack">>
    /\ posts # <<>>

\* C7 as stated: the route resolved for any fragment, which navigateTo records
\* in the history, has view home or posts.
RecognizedViews == {"home", "posts"}

C7_RouteViewRecognized ==
    started =>
        /\ getCurrentRoute(hash).view \in RecognizedViews
        /\ \A i \in 1..Len(navigationHistory) :
               navigationHistory[i].view \in RecognizedViews

\* C7, amended: a fragment that is empty or whose view part is not a
\* recognized view name is rendered as home; the route resolved for it, which
\* navigateTo records in the history, has view home when the view part is
\* empty and the view part itself otherwise.
C7_UnrecognizedRendersHome ==
    started =>
        /\ hash[1] \notin {"posts"} => content.kind = "home"
        /\ getCurrentRoute(hash).view = (IF hash[1] = "" THEN "home" ELSE hash[1])
        /\ \A i \in 1..Len(navigationHistory) : navigationHistory[i].view # ""

\* an unrecognized view part is shown as home, and a route with that view is
\* in the history
C7_Witness ==
    /\ started
    /\ hash[1] = "foo"
    /\ content.kind = "home"

C7_WitnessRecorded ==
    /\ started
    /\ hash = <<"">>
    /\ Len(navigationHistory) > 0
    /\ navigationHistory[Len(navigationHistory)].view = "foo"


(***************************************************************************)
(* The claims about the detail view and its cache.                         *)
(***************************************************************************)
\* ct shows the rendered detail of post id
IsDetailOf(ct, id) ==
    /\ ct.kind = "detail"
    /\ ct.article # <<>>
    /\ ct.article[1].postId = id

\* C8: content served from domCache.postDetails for a post id is the rendered
\* detail of that post and nothing else, however the navigations interleave
\* with the image checks and the caching timer.
C8_ServedIsDetail ==
    content.servedFor # "" => IsDetailOf(content, content.servedFor)

\* some activation is still checking images
Checking == \E c \in DOMAIN calls : calls[c].pc \in {"thumb", "gallery"}

\* the sources of the images of a gallery that are not placeholders
LoadedSources(images) ==
    {images[i].src : i \in {j \in 1..Len(images) : ~images[j].isPlaceholder}}

\* C9: when renderPost calls overlap, each call checks and builds its gallery
\* from the images of its own post, and once all have finished the viewer's
\* image set loadedGalleryImages is that of the post on display.
C9_OwnGallery ==
    /\ \A c \in DOMAIN calls :
           calls[c].pc = "gallery" => calls[c].imgs = calls[c].post.gallery
    /\ (/\ ~Checking
        /\ content.kind = "detail"
        /\ content.call # 0
        /\ content.article # <<>>)
       => LET post == FindPost(posts, content.article[1].postId)
          IN  /\ Len(renderer.loadedGalleryImages) = Len(post.gallery)
              /\ LoadedSources(renderer.loadedGalleryImages) \subseteq Range(post.gallery)

\* C10: once loadPosts has replaced the data of a post, a visit to the post is
\* not served from the cache entry rendered from the old data.
C10_ServedStep ==
    (/\ content' # content
     /\ content'.servedFor # ""
     /\ IsDetailOf(content', content'.servedFor))
    => content'.article[1].rev = FindPost(posts', content'.servedFor).rev

C10_ServedFresh == [][C10_ServedStep]_vars


(***************************************************************************)
(* The claims about the list view.                                         *)
(***************************************************************************)
\* the ids of the displayed cards, in order
CardIds == [i \in 1..Len(content.cards) |-> content.cards[i].id]

IdSeq(ps) == [i \in 1..Len(ps) |-> ps[i].id]

\* C11: in the list view, after every filter-state change made through its
\* handlers, the cards displayed are those of the filtered and sorted posts
\* for the current filter state, in that order, and the no-results message is
\* shown exactly when there is none.
C11_CardsFollowFilter ==
    (started /\ content.kind = "list") =>
        LET expected == ComputeFiltered(ui.posts, ui.filterState)
        IN  /\ CardIds = IdSeq(expected)
            /\ \A i \in 1..Len(content.cards) :
                   /\ content.cards[i].title = expected[i].title
                   /\ content.cards[i].date = expected[i].date
            /\ content.noResults <=> expected = <<>>

\* a handler has narrowed the cards to some of the posts, and to none
C11_Witness ==
    /\ content.kind = "list"
    /\ lastCall.via = "apply"
    /\ Len(content.cards) = 1
    /\ Len(ui.posts) = 2
    /\ ui.filterState.searchTerm # <<>>

C11_WitnessNone ==
    /\ content.kind = "list"
    /\ lastCall.via = "apply"
    /\ content.noResults
    /\ Len(ui.posts) = 2


\* C12: in every state of the list view the selected tags are among allTags,
\* the tags extracted from the loaded posts.
C12_SelectedWithinAllTags ==
    (started /\ content.kind = "list") =>
        Range(ui.filterState.selectedTags) \subseteq Range(ui.allTags)


\* no loaded post passes the search and tag predicates of the filter state
MatchesNoPost ==
    \A p \in Range(ui.posts) :
        ~(/\ PassesSearch(p, ui.filterState.searchTerm)
          /\ PassesTags(p, Range(ui.filterState.selectedTags)))

\* C13: when the filter state matches no post, filterAndSortPosts returns the
\* empty sequence, and a repeated call with the same filter state does not
\* return the stored result: it recomputes, and returns the empty sequence.
C13_EmptyNotCached ==
    (Called /\ MatchesNoPost) =>
        /\ lastCall.result = <<>>
        /\ ui.filteredPosts = <<>>
        /\ ~lastCall.cached

\* the list has been rendered again (init) with a search term that a handler
\* had set before and that matches none of the loaded posts
C13_Witness ==
    /\ lastCall.via = "init"
    /\ ui.filterState.searchTerm = <<"z", "z">>
    /\ ui.posts # <<>>
    /\ lastCall.result = <<>>


(***************************************************************************)
(* The claims about failures.                                              *)
(***************************************************************************)
\* the fragment h names a post that is not among the posts ps
NamesMissingPost(h, ps) ==
    /\ h[1] = "posts"
    /\ Len(h) >= 2
    /\ h[2] # ""
    /\ \A i \in 1..Len(ps) : ps[i].id # h[2]

\* C14: rendering posts/<id> when no loaded post has that id shows the
\* not-found message and nothing else happens: the posts, the detail cache and
\* the pending activations are unchanged, the history is unchanged when the
\* rendering was not asked by navigateTo or goBack, and navigations from the
\* message are handled as anywhere else.
C14_NotFoundStep ==
    /\ (started /\ ops' # ops /\ NamesMissingPost(hash', posts))
       => /\ content'.kind = "notfound"
          /\ content'.article = <<>>
          /\ posts' = posts
          /\ domCache' = domCache
          /\ calls' = calls
    /\ ((\E h \in RouteFragments : HashChange(h)) /\ NamesMissingPost(hash', posts))
       => navigationHistory' = navigationHistory

C14_StillHandled ==
    (started /\ content.kind = "notfound") =>
        /\ navigateTo(Cur, "home", "").content.kind = "home"
        /\ navigateTo(Cur, "posts", "").content.kind = "list"
        /\ goBack(Cur).content.kind # "none"

C14_NotFound == [][C14_NotFoundStep]_vars /\ []C14_StillHandled

\* the message was shown for a post that is not loaded, and a later
\* navigation has shown the list
C14_Witness ==
    /\ Len(trace) = 3
    /\ trace[2] = <<"navigateTo", "posts", "a">>
    /\ trace[3] = <<"navigateTo", "posts", "">>
    /\ posts = <<>>
    /\ content.kind = "list"

C14_WitnessShown ==
    /\ started
    /\ hash = <<"posts", "a">>
    /\ content.kind = "notfound"
    /\ ops > 0


\* the latest loadPosts call asked for url, and how often
Requests(url) == {k \in 1..Len(fetchLog) : fetchLog[k].url = url}

IndexLoaded == fetchLog # <<>> /\ fetchLog[1] = [url |-> IndexUrl, ok |-> TRUE]

IndexFailed == fetchLog # <<>> /\ fetchLog[1] = [url |-> IndexUrl, ok |-> FALSE]

\* C15: when the index was fetched, the posts after loadPosts are exactly the
\* published posts whose own fetch succeeded, each once, whatever posts
\* failed; the legacy posts.json is not fetched and every post is requested
\* once.
C15_FailedPostsDropped ==
    IndexLoaded =>
        /\ \A p \in Range(server) :
               p \in Range(posts) <=>
                   \E k \in Requests(PostUrl(p.id)) : fetchLog[k].ok
        /\ Range(posts) \subseteq Range(server)
        /\ \A i, j \in 1..Len(posts) : posts[i] = posts[j] => i = j
        /\ Requests(LegacyUrl) = {}
        /\ \A p \in Range(server) : Cardinality(Requests(PostUrl(p.id))) = 1

\* of two published posts one was fetched and the other was not
C15_Witness ==
    /\ IndexLoaded
    /\ Len(server) = 2
    /\ Len(posts) = 1
    /\ \E k \in 1..Len(fetchLog) : ~fetchLog[k].ok

\* C16: after a loadPosts call whose indexed path failed, the legacy
\* posts.json has been fetched, and if that failed too the posts are empty
\* (and a view is rendered all the same).
C16_EmptyAfterTotalFailure ==
    (started /\ IndexFailed) =>
        /\ Requests(LegacyUrl) # {}
        /\ (\A k \in Requests(LegacyUrl) : ~fetchLog[k].ok) => posts = <<>>
        /\ content.kind \in {"home", "list"}


(***************************************************************************)
(* The claims about the images of the detail view.                         *)
(***************************************************************************)
\* C17: the banner of a displayed article shows the thumbnail of its post only
\* if a load check of the thumbnail was made and succeeded, for posts with and
\* without gallery images.
C17_BannerVerified ==
    (content.kind = "detail" /\ content.article # <<>>) =>
        LET article == content.article[1]
            post == FindPost(posts, article.postId)
        IN  (Has(post, "image") /\ article.banner = <<post.image>>) =>
                /\ MapHas(renderer.imageLoadStatus, post.image)
                /\ (\A c \in DOMAIN calls : calls[c].pc = "timer") =>
                       renderer.imageLoadStatus[post.image]

\* check i of activation c is running and its promise is pending
Pending(c, i) ==
    /\ c \in DOMAIN calls
    /\ i \in 1..Len(calls[c].checks)
    /\ calls[c].checks[i].outcome = "pending"

AnyPending == \E c \in 1..MaxCalls, i \in 1..2 : Pending(c, i)

\* the outcome of every check is that of its first event
C18_FirstEventDecides ==
    \A c \in DOMAIN calls : \A i \in 1..Len(calls[c].checks) :
        LET ck == calls[c].checks[i]
        IN  /\ ck.outcome = "pending" <=> ck.first = "none"
            /\ ck.outcome = "true" <=> ck.first = "load"
            /\ ck.outcome = "false" <=> ck.first \in {"error", "timeout"}
            /\ ck.first = "none" <=> ck.seen = {}

\* the displayed article of a finished activation shows gallery image i as
\* the placeholder exactly when the load event was not the first event of
\* its check
C18_RenderedAsChecked ==
    \A c \in DOMAIN calls :
        (calls[c].pc = "timer" /\ content.call = c /\ content.article # <<>>) =>
            LET gallery == content.article[1].gallery
                checks == calls[c].checks
            IN  \A i \in 1..Len(gallery) :
                    /\ i <= Len(checks)
                    /\ gallery[i].isPlaceholder <=> checks[i].first # "load"
                    /\ gallery[i].isPlaceholder => gallery[i].src = PlaceholderImage
                    /\ ~gallery[i].isPlaceholder => gallery[i].src # PlaceholderImage

\* C18: checkImageLoads always settles, with exactly one outcome: true if the
\* load event is the first event of the check, false if the error event or
\* the timeout is; a gallery image whose check timed out is rendered with the
\* placeholder source and marked as placeholder, whatever event arrives later.
C18_CheckSettlesOnce ==
    /\ []C18_FirstEventDecides
    /\ []C18_RenderedAsChecked
    /\ AnyPending ~> ~AnyPending

\* a gallery image timed out, is shown as the placeholder, and its load event
\* arrived afterwards
C18_Witness ==
    \E c \in DOMAIN calls :
        /\ calls[c].pc = "timer"
        /\ content.call = c
        /\ content.article # <<>>
        /\ \E i \in 1..Len(content.article[1].gallery) :
               /\ calls[c].checks[i].first = "timeout"
               /\ "load" \in calls[c].checks[i].seen
               /\ content.article[1].gallery[i].isPlaceholder
               /\ content.article[1].gallery[i].src = PlaceholderImage

(***************************************************************************)
(* The claims about the viewer.                                            *)
(***************************************************************************)
\* C19: in every displayed detail view, freshly rendered or replayed from the
\* detail cache, a click on a gallery item showing a verified image opens the
\* viewer and a click on an item showing the placeholder does not.
C19_ClickOpensViewer ==
    (started /\ modal.hidden /\ content.kind = "detail" /\ content.article # <<>>) =>
        LET gallery == content.article[1].gallery
        IN  \A idx \in 0..(Len(gallery) - 1) :
                LET after == clickGalleryItem(Cur, idx)
                IN  /\ gallery[idx + 1].isPlaceholder => after.modal.hidden
                    /\ ~gallery[idx + 1].isPlaceholder => ~after.modal.hidden

\* some entry of imgs is marked as placeholder
HasPlaceholder(imgs) == \E k \in 1..Len(imgs) : imgs[k].isPlaceholder

\* while the viewer is open it shows an entry of the navigated set, and no
\* entry of that set is a placeholder
C20_NavigatedLoaded ==
    ~modal.hidden =>
        LET images == NavigatedImages(renderer)
        IN  /\ images # <<>>
            /\ ~HasPlaceholder(images)
            /\ \A k \in 1..Len(images) : images[k].src # PlaceholderImage
            /\ renderer.currentImageIndex \in 0..(Len(images) - 1)
            /\ modal.img = <<images[renderer.currentImageIndex + 1]>>

\* the viewer opens only when some gallery image is loaded, and a call of
\* openGallery that finds none leaves it hidden
C20_OpenStep ==
    /\ (modal.hidden /\ ~modal'.hidden) =>
           \E k \in 1..Len(renderer.loadedGalleryImages) :
               ~renderer.loadedGalleryImages[k].isPlaceholder
    /\ (modal' # modal /\ modal'.last = "refused") =>
           /\ modal'.hidden
           /\ ViewableImages(renderer.loadedGalleryImages) = <<>>

\* C20: while the viewer is open the set it navigates holds loaded images
\* only: openGallery, nextImage and previousImage never display an image
\* marked as placeholder, and openGallery does not open the viewer when every
\* gallery image is a placeholder.
C20_OnlyLoadedNavigated == []C20_NavigatedLoaded /\ [][C20_OpenStep]_vars

\* the viewer was opened on a gallery with a placeholder among its images and
\* moved to the next of the two loaded ones
C20_Witness ==
    /\ ~modal.hidden
    /\ modal.last = "next"
    /\ HasPlaceholder(renderer.loadedGalleryImages)
    /\ Len(NavigatedImages(renderer)) = 2
    /\ renderer.currentImageIndex = 1

\* openGallery was called when every gallery image was a placeholder
C20_WitnessRefused ==
    /\ modal.hidden
    /\ modal.last = "refused"
    /\ renderer.loadedGalleryImages # <<>>

C20_WitnessPrevious ==
    /\ ~modal.hidden
    /\ modal.last = "previous"
    /\ HasPlaceholder(renderer.loadedGalleryImages)

\* the index is one of the navigable set, which is not empty while the
\* viewer is open
C21_IndexInRange ==
    LET n == Len(NavigatedImages(renderer))
    IN  /\ n > 0 => renderer.currentImageIndex \in 0..(n - 1)
        /\ n = 0 => renderer.currentImageIndex = 0
        /\ ~modal.hidden => n > 0

\* what nextImage and previousImage do to the index and the image shown
C21_WrapStep ==
    LET images == NavigatedImages(renderer)
        n == Len(images)
        index == renderer.currentImageIndex
    IN  /\ NextImage =>
               /\ renderer'.currentImageIndex = IF index = n - 1 THEN 0 ELSE index + 1
               /\ modal'.img = <<images[renderer'.currentImageIndex + 1]>>
               /\ NavigatedImages(renderer') = images
        /\ PreviousImage =>
               /\ renderer'.currentImageIndex = IF index = 0 THEN n - 1 ELSE index - 1
               /\ modal'.img = <<images[renderer'.currentImageIndex + 1]>>
               /\ NavigatedImages(renderer') = images

\* C21: viewer navigation wraps at both ends: nextImage on the last image
\* shows the first and previousImage on the first shows the last (and each
\* moves by one elsewhere); whenever there are navigable images
\* currentImageIndex is one of 0..(their number - 1), and it is 0 before any.
C21_NavigationWraps == []C21_IndexInRange /\ [][C21_WrapStep]_vars

\* nextImage has wrapped from the last of three images to the first
C21_Witness ==
    /\ ~modal.hidden
    /\ modal.last = "next"
    /\ Len(NavigatedImages(renderer)) = 3
    /\ renderer.currentImageIndex = 0

\* previousImage has wrapped from the first of three images to the last
C21_WitnessPrevious ==
    /\ ~modal.hidden
    /\ modal.last = "previous"
    /\ Len(NavigatedImages(renderer)) = 3
    /\ renderer.currentImageIndex = 2

\* what a key does: nothing to the viewer while it is hidden; while it is
\* open Escape closes it, ArrowRight and ArrowDown move to the next image,
\* ArrowLeft and ArrowUp to the previous one; a click on the overlay closes
C22_KeyStep ==
    LET images == NavigatedImages(renderer)
        n == Len(images)
        index == renderer.currentImageIndex
    IN  /\ \A key \in Keys : KeyDown(key) =>
               /\ modal.hidden => (modal'.hidden /\ renderer' = renderer
                                   /\ modal'.img = modal.img)
               /\ (~modal.hidden /\ key = "Escape") =>
                      (modal'.hidden /\ renderer' = renderer)
               /\ (~modal.hidden /\ key \in {"ArrowRight", "ArrowDown"}) =>
                      /\ ~modal'.hidden
                      /\ renderer'.currentImageIndex = (index + 1) % n
                      /\ modal'.img = <<images[renderer'.currentImageIndex + 1]>>
               /\ (~modal.hidden /\ key \in {"ArrowLeft", "ArrowUp"}) =>
                      /\ ~modal'.hidden
                      /\ renderer'.currentImageIndex = (index + n - 1) % n
                      /\ modal'.img = <<images[renderer'.currentImageIndex + 1]>>
        /\ CloseGallery => (modal'.hidden /\ renderer' = renderer)

\* C22: while the viewer is open, Escape or a click on the overlay closes it,
\* ArrowRight or ArrowDown moves to the next image and ArrowLeft or ArrowUp to
\* the previous one; while it is closed these keys leave it closed and leave
\* currentImageIndex as it was.
C22_Keys == [][C22_KeyStep]_vars

\* a key was pressed with the viewer closed, after images had been navigated
C22_Witness ==
    /\ modal.hidden
    /\ modal.last = "keyIgnored"
    /\ renderer.currentImageIndex > 0

\* the viewer is open and was moved to another image
C22_WitnessOpen ==
    /\ ~modal.hidden
    /\ modal.last \in {"next", "previous"}
    /\ Len(NavigatedImages(renderer)) > 1

(***************************************************************************)
(* The claims about the project overlays.                                  *)
(***************************************************************************)
\* a step with one overlay open that is a press of Escape, a click on the
\* overlay's close control, or a click outside the overlay and its trigger
\* (on the page, or on a timeline item) removes the overlay, unbinds the
\* handlers and gives the focus to the element that had it at the opening
C23_CloseStep ==
    \A o \in DOMAIN timeline.overlays :
        (/\ DOMAIN timeline.overlays = {o}
         /\ \/ KeyDown("Escape")
            \/ OverlayCloseClick(o)
            \/ OutsideClick
            \/ TimelineItemClick) =>
            /\ timeline'.overlays = EmptyMap
            /\ timeline'.bound = <<>>
            /\ timeline'.focus = timeline.overlays[o].previousActiveElement

\* C23: an open project overlay is closed by a click outside the overlay and
\* its trigger, by Escape and by its close control; on every such close the
\* overlay is removed, the document's click and keydown handlers bound for it
\* are unbound, and the focus returns to the element that had it when the
\* overlay was opened.
C23_OverlayClosed == [][C23_CloseStep]_vars

\* C27: at most one project overlay is in the document, whatever the project
\* clicks, closes, changes of the fragment and renders of the home view.
C27_OneOverlay == Cardinality(DOMAIN timeline.overlays) <= 1

(***************************************************************************)
(* Further claims about the router and the caches.                         *)
(***************************************************************************)
\* every goBack step leaves one entry less in the history, and none when
\* there was none
C24_PopStep ==
    GoBack =>
        /\ Len(navigationHistory') =
               (IF Len(navigationHistory) = 0 THEN 0 ELSE Len(navigationHistory) - 1)
        /\ navigationHistory = <<>> => navigationHistory' = <<>>

\* C24: goBack only pops: it never adds an entry to navigationHistory; after
\* goBack the history has max(0, length before - 1) entries, and goBack on an
\* empty history leaves it empty.
C24_GoBackOnlyPops == [][C24_PopStep]_vars

\* C25: after PostFilterUI.init(posts), filteredPosts is the filtered and
\* sorted subsequence of the posts given, under the current filter state, also
\* when the instance was initialised before with other posts and the filter
\* state has not changed since.
C25_InitRefilters ==
    (started /\ content.kind = "list") =>
        ui.filteredPosts = ComputeFiltered(ui.posts, ui.filterState)

\* C26: a click on the gallery item showing the verified image at position i
\* of the gallery opens the viewer on that image, also when an image at an
\* earlier position was replaced by the placeholder.
C26_ClickShowsSameImage ==
    (started /\ modal.hidden /\ content.kind = "detail" /\ content.article # <<>>) =>
        LET gallery == content.article[1].gallery
        IN  \A idx \in 0..(Len(gallery) - 1) :
                LET after == clickGalleryItem(Cur, idx)
                IN  (~gallery[idx + 1].isPlaceholder /\ ~after.modal.hidden) =>
                        after.modal.img = <<gallery[idx + 1]>>

\* C28: in every state of the list view the result count of the filter bar
\* shows (number of filtered posts)/(number of loaded posts), after every
\* search, tag and sort change and after the filters are cleared.
C28_CountShown ==
    (started /\ content.kind = "list") =>
        content.bar[1].count = <<Len(ui.filteredPosts), Len(ui.posts)>>

\* a render caused by a hashchange or popstate event leaves the history as it
\* is, and a step that changes the history is a navigateTo or a goBack call
C29_HistoryStep ==
    /\ (\E h \in RouteFragments : HashChange(h)) =>
           navigationHistory' = navigationHistory
    /\ navigationHistory' # navigationHistory =>
           \/ GoBack
           \/ \E view \in {"home", "posts"}, id \in {"", "a"} : NavigateTo(view, id)

\* C29: a render triggered by a hashchange or popstate event leaves
\* navigationHistory unchanged; navigateTo and goBack are the only operations
\* that modify it.
C29_HistoryFrame == [][C29_HistoryStep]_vars

\* the fragment was changed to an unrecognized one while the history held
\* entries, and they are still held
C29_Witness ==
    /\ trace = Many
    /\ hash = <<"foo">>
    /\ content.kind = "home"
    /\ Len(navigationHistory) = 2


\* the entries of a cache map other than those of key k
OtherEntries(m, k) == [x \in (DOMAIN m) \ {k} |-> m[x]]

C30_ClearStep ==
    \A id \in CachedIds :
        ClearPostCache(id) =>
            /\ ~MapHas(domCache'.postDetails, id)
            /\ ~MapHas(domCache'.postListItems, ListKey(id))
            /\ OtherEntries(domCache'.postDetails, id) =
                   OtherEntries(domCache.postDetails, id)
            /\ OtherEntries(domCache'.postListItems, ListKey(id)) =
                   OtherEntries(domCache.postListItems, ListKey(id))

\* C30: a step of clearPostCache(id) leaves neither the cached detail page
\* nor the cached list-item HTML of post id in domCache, and leaves the
\* entries of every other post as they were
C30_ClearPostCache == [][C30_ClearStep]_vars

====
